---- MODULE Spec2Model ----
(***************************************************************************)
(* Astronode serial driver (modem_astronode.py): CRC-16 engine, ASCII-hex  *)
(* frame codec, byte-capture loop of receive_decode_answer and the command *)
(* operations built on one send + one capture.                             *)
(*                                                                         *)
(* Bytes are integers 0..255.  Python str and bytes values are sequences   *)
(* of character codes; Python values whose type matters (None, int, str,   *)
(* bytes) are tagged records, so that == between a str and an int is       *)
(* False as in Python.                                                     *)
(***************************************************************************)
EXTENDS Integers, Sequences, FiniteSets, TLC

\* ------------------------------------------------------------------ constants
\* Request opcodes (asset => terminal)
CFG_SR == 16
CFG_FR == 17
CFG_RR == 21
RTC_RR == 23
MGI_RR == 25
MSN_RR == 26
MPN_RR == 27
PLD_ER == 37
PLD_DR == 38
PLD_FR == 39
\* Answer opcodes (terminal => asset)
CFG_SA == 144
CFG_FA == 145
CFG_RA == 149
RTC_RA == 151
MGI_RA == 153
MSN_RA == 154
MPN_RA == 155
PLD_EA == 165
PLD_DA == 166
PLD_FA == 167
ERR_RA == 255
\* Escape characters
STX == 2
ETX == 3
\* Message queue description
ASN_MAX_MSG_SIZE == 160
\* Function return codes
ANS_STATUS_NONE == 0
ANS_STATUS_CRC_NOT_VALID == 1
ANS_STATUS_BUFFER_FULL == 9473
ANS_STATUS_SUCCESS == 28672
ANS_STATUS_TIMEOUT == 28673
ANS_STATUS_HW_ERR == 28674
ANS_STATUS_DATA_SENT == 28675
ANS_STATUS_DATA_RECEIVED == 28676
ANS_STATUS_PAYLOAD_TOO_LONG == 28677
ANS_STATUS_PAYLOAD_ID_CHECK_FAILED == 28678
\* Astrocast time
ASTROCAST_REF_UNIX_TIME == 1514764800

\* ------------------------------------------------------------------ bounds
\* The capture deadline is start + 1000 ticks and MicroPython's ticks_ms()
\* wraps at TICKS_PERIOD (2^30 on the ESP32 port); both are scaled down.
CaptureTimeout == 2
TicksPeriod == 6
\* The elapsed-time observer saturates here.
ElapsedCap == 4

\* ------------------------------------------------------------------ Python values
PyNone == [t |-> "NoneType", n |-> 0, s |-> <<>>]
PyInt(n) == [t |-> "int", n |-> n, s |-> <<>>]
PyStr(s) == [t |-> "str", n |-> 0, s |-> s]
PyBytes(s) == [t |-> "bytes", n |-> 0, s |-> s]
PyObj(s) == [t |-> "object", n |-> 0, s |-> s]

\* Python's == on the value kinds above: values of different types are unequal.
PyEq(a, b) == a.t = b.t /\ a.n = b.n /\ a.s = b.s

\* ------------------------------------------------------------------ bytes and hex
IsHexChar(c) == c \in (48..57) \cup (65..70) \cup (97..102)

HexVal(c) == IF c <= 57 THEN c - 48 ELSE IF c <= 70 THEN c - 55 ELSE c - 87

HexDigitUpper(n) == IF n < 10 THEN 48 + n ELSE 55 + n

HexDigitLower(n) == IF n < 10 THEN 48 + n ELSE 87 + n

\* ubinascii.hexlify: two lowercase hex digits per byte.
hexlify(b) ==
    [i \in 1..(2 * Len(b)) |->
        IF i % 2 = 1 THEN HexDigitLower(b[(i + 1) \div 2] \div 16)
                     ELSE HexDigitLower(b[i \div 2] % 16)]

\* ubinascii.unhexlify raises ValueError on an odd length or a non-hex digit.
CanUnhexlify(s) == Len(s) % 2 = 0 /\ \A i \in 1..Len(s) : IsHexChar(s[i])

unhexlify(s) ==
    [i \in 1..(Len(s) \div 2) |-> 16 * HexVal(s[2 * i - 1]) + HexVal(s[2 * i])]

\* Variant of upper: the bytes are left as they are.
upper_Identity(s) == s

\* bytes.upper(): ASCII a..z to A..Z, every other byte unchanged.
upper(s) == [i \in 1..Len(s) |-> IF s[i] \in 97..122 THEN s[i] - 32 ELSE s[i]]

RECURSIVE ToHexUpper(_)
ToHexUpper(n) ==
    IF n < 16 THEN <<HexDigitUpper(n)>>
    ELSE ToHexUpper(n \div 16) \o <<HexDigitUpper(n % 16)>>

RECURSIVE ToHexLower(_)
ToHexLower(n) ==
    IF n < 16 THEN <<HexDigitLower(n)>>
    ELSE ToHexLower(n \div 16) \o <<HexDigitLower(n % 16)>>

Zeros(k) == [i \in 1..k |-> 48]

\* "%0.2X" % n and '{:04X}'.format(n): uppercase hex, zero-padded on the left.
FormatX(n, width) ==
    LET d == ToHexUpper(n)
    IN  IF Len(d) >= width THEN d ELSE Zeros(width - Len(d)) \o d

\* '{:04s}'.format(hex(r)[2:6]): lowercase hex digits of r, left-aligned and
\* filled with '0' on the right up to 4 characters.
FormatRandomId(r) ==
    LET d == ToHexLower(r)
        h == IF Len(d) > 4 THEN SubSeq(d, 1, 4) ELSE d
    IN  IF Len(h) >= 4 THEN h ELSE h \o Zeros(4 - Len(h))

\* ------------------------------------------------------------------ checksum
RECURSIVE XOR(_, _)
XOR(a, b) ==
    IF a = 0 THEN b
    ELSE IF b = 0 THEN a
    ELSE ((a + b) % 2) + 2 * XOR(a \div 2, b \div 2)

table == <<
    0, 4129, 8258, 12387, 16516, 20645, 24774, 28903,
    33032, 37161, 41290, 45419, 49548, 53677, 57806, 61935,
    4657, 528, 12915, 8786, 21173, 17044, 29431, 25302,
    37689, 33560, 45947, 41818, 54205, 50076, 62463, 58334,
    9314, 13379, 1056, 5121, 25830, 29895, 17572, 21637,
    42346, 46411, 34088, 38153, 58862, 62927, 50604, 54669,
    13907, 9842, 5649, 1584, 30423, 26358, 22165, 18100,
    46939, 42874, 38681, 34616, 63455, 59390, 55197, 51132,
    18628, 22757, 26758, 30887, 2112, 6241, 10242, 14371,
    51660, 55789, 59790, 63919, 35144, 39273, 43274, 47403,
    23285, 19156, 31415, 27286, 6769, 2640, 14899, 10770,
    56317, 52188, 64447, 60318, 39801, 35672, 47931, 43802,
    27814, 31879, 19684, 23749, 11298, 15363, 3168, 7233,
    60846, 64911, 52716, 56781, 44330, 48395, 36200, 40265,
    32407, 28342, 24277, 20212, 15891, 11826, 7761, 3696,
    65439, 61374, 57309, 53244, 48923, 44858, 40793, 36728,
    37256, 33193, 45514, 41451, 53516, 49453, 61774, 57711,
    4224, 161, 12482, 8419, 20484, 16421, 28742, 24679,
    33721, 37784, 41979, 46042, 49981, 54044, 58239, 62302,
    689, 4752, 8947, 13010, 16949, 21012, 25207, 29270,
    46570, 42443, 38312, 34185, 62830, 58703, 54572, 50445,
    13538, 9411, 5280, 1153, 29798, 25671, 21540, 17413,
    42971, 47098, 34713, 38840, 59231, 63358, 50973, 55100,
    9939, 14066, 1681, 5808, 26199, 30326, 17941, 22068,
    55628, 51565, 63758, 59695, 39368, 35305, 47498, 43435,
    22596, 18533, 30726, 26663, 6336, 2273, 14466, 10403,
    52093, 56156, 60223, 64286, 35833, 39896, 43963, 48026,
    19061, 23124, 27191, 31254, 2801, 6864, 10931, 14994,
    64814, 60687, 56684, 52557, 48554, 44427, 40424, 36297,
    31782, 27655, 23652, 19525, 15522, 11395, 7392, 3265,
    61215, 65342, 53085, 57212, 44955, 49082, 36825, 40952,
    28183, 32310, 20053, 24180, 11923, 16050, 3793, 7920
>>

\* One iteration of the loop body: crc = (crc << 8) ^ table[(crc >> 8) ^ byte],
\* then crc &= 0xFFFF.
crc16_step(crc, byte) ==
    XOR(crc * 256, table[XOR(crc \div 256, byte) + 1]) % 65536

\* The for loop over data[lo..hi], in order, starting from crc.  The range is
\* split in two halves, and the left half computed first (the test on left
\* only orders the evaluation), to keep the evaluation shallow; the bytes
\* are folded left to right exactly as the loop does.
RECURSIVE crc16_range(_, _, _, _)
crc16_range(crc, data, lo, hi) ==
    IF lo > hi THEN crc
    ELSE IF lo = hi THEN crc16_step(crc, data[lo])
    ELSE LET mid == (lo + hi) \div 2
             left == crc16_range(crc, data, lo, mid)
         IN  IF left >= 0 THEN crc16_range(left, data, mid + 1, hi) ELSE left

\* Variant of _crc16: the register starts at 0 instead of 0xFFFF.
_crc16_InitZero(data) == crc16_range(0, data, 1, Len(data))

\* crc = 0xFFFF, then one table step per byte.
_crc16(data) == crc16_range(65535, data, 1, Len(data))

\* _generate_crc: the 4 uppercase hex characters of the CRC of the decoded
\* bytes, reordered [2,3,0,1].  Callers guard CanUnhexlify(data).
_generate_crc(data) ==
    LET crc_tmp == FormatX(_crc16(unhexlify(data)), 4)
    IN  <<crc_tmp[3], crc_tmp[4], crc_tmp[1], crc_tmp[2]>>

text_to_hex(text) == hexlify(text)

\* ------------------------------------------------------------------ frame codec
\* generate_message with include_message_id = True: id is the caller's value or,
\* when None, the formatted random draw r; m = id + hex(payload).  "m += str"
\* on an int id raises TypeError.
generate_message(payload, id, r) ==
    LET id1 == IF id.t = "NoneType" THEN PyStr(FormatRandomId(r)) ELSE id
    IN  IF id1.t # "str"
        THEN [raised |-> "TypeError", id |-> id1, m |-> <<>>]
        ELSE [raised |-> "none", id |-> id1, m |-> id1.s \o text_to_hex(payload)]

\* encode_send_request up to the write: _generate_crc unhexlifies opcode + data.
EncodeRaises(opcode, data) == ~CanUnhexlify(FormatX(opcode, 2) \o data)

\* Variant of EncodedFrame: the CRC characters are appended unswapped.
EncodedFrame_Unswapped(opcode, data) ==
    LET msg0 == FormatX(opcode, 2) \o data
        msg1 == msg0 \o FormatX(_crc16(unhexlify(msg0)), 4)
        msg2 == text_to_hex(<<STX>>) \o hexlify(msg1) \o text_to_hex(<<ETX>>)
    IN  upper(unhexlify(msg2))

\* The bytes handed to the transport write.
EncodedFrame(opcode, data) ==
    LET msg0 == FormatX(opcode, 2) \o data
        msg1 == msg0 \o _generate_crc(msg0)
        msg2 == text_to_hex(<<STX>>) \o hexlify(msg1) \o text_to_hex(<<ETX>>)
    IN  upper(unhexlify(msg2))

\* UART.write returns the number of bytes written, or None; only None is
\* reported as a hardware error.
SendStatus(message_len) ==
    IF message_len.t # "NoneType" THEN ANS_STATUS_DATA_SENT ELSE ANS_STATUS_HW_ERR

\* Result of receive_decode_answer: (ret_val, opcode, data) or a raised error.
Answer(ret_val, opcode, data) ==
    [raised |-> "none", ret_val |-> ret_val, opcode |-> opcode, data |-> data]

AnswerRaised(e) ==
    [raised |-> e, ret_val |-> ANS_STATUS_NONE, opcode |-> PyNone, data |-> PyNone]

\* The frame must be longer than 6 bytes to be decoded.
LongEnough(message_buffer) == Len(message_buffer) > 6

\* bytes.decode() succeeds on well-formed UTF-8: every byte that is not a
\* continuation byte (0x80..0xBF) is ASCII or a lead byte followed by exactly
\* the continuation bytes it announces, and no continuation byte stands alone.
Continuation(x) == x >= 128 /\ x <= 191

Trail(x) ==
    IF x < 128 THEN 0
    ELSE IF x >= 194 /\ x <= 223 THEN 1
    ELSE IF x >= 224 /\ x <= 239 THEN 2
    ELSE IF x >= 240 /\ x <= 244 THEN 3
    ELSE -1

CanDecode(b) ==
    \A i \in 1..Len(b) :
        IF Continuation(b[i]) THEN i > 1
        ELSE /\ Trail(b[i]) >= 0
             /\ i + Trail(b[i]) <= Len(b)
             /\ \A k \in 1..Trail(b[i]) : Continuation(b[i + k])
             /\ i + Trail(b[i]) < Len(b) => ~Continuation(b[i + Trail(b[i]) + 1])

\* receive_decode_answer after the capture loop.
DecodeBuffer(message_buffer) ==
    IF LongEnough(message_buffer)
    THEN LET n == Len(message_buffer)
             message == SubSeq(message_buffer, 2, n - 5)
             cmd_crc_check == SubSeq(message_buffer, n - 4, n - 1)
         IN  IF ~CanDecode(message) \/ ~CanDecode(cmd_crc_check)
             THEN AnswerRaised("UnicodeError")
             ELSE IF ~CanUnhexlify(message) THEN AnswerRaised("ValueError")
             ELSE LET com_buf_astronode == unhexlify(message)
                      cmd_crc == _generate_crc(message)
                  IN  IF cmd_crc = cmd_crc_check
                      THEN IF com_buf_astronode[1] = ERR_RA
                           THEN IF Len(com_buf_astronode) < 3
                                THEN AnswerRaised("IndexError")
                                ELSE Answer(com_buf_astronode[3] * 256 + com_buf_astronode[2],
                                            PyNone, PyNone)
                           ELSE Answer(ANS_STATUS_DATA_RECEIVED,
                                       PyInt(com_buf_astronode[1]),
                                       PyBytes(Tail(com_buf_astronode)))
                      ELSE Answer(ANS_STATUS_CRC_NOT_VALID, PyNone, PyNone)
    ELSE Answer(ANS_STATUS_TIMEOUT, PyNone, PyNone)

\* ------------------------------------------------------------------ commands
Commands ==
    {"configuration_read", "configuration_save", "factory_reset", "guid_read",
     "serial_number_read", "product_number_read", "rtc_read", "enqueue_payload",
     "dequeue_payload", "clear_free_payloads"}

\* reg: the request opcode each command sends.
reg(c) ==
    CASE c = "configuration_read" -> CFG_RR
      [] c = "configuration_save" -> CFG_SR
      [] c = "factory_reset" -> CFG_FR
      [] c = "guid_read" -> MGI_RR
      [] c = "serial_number_read" -> MSN_RR
      [] c = "product_number_read" -> MPN_RR
      [] c = "rtc_read" -> RTC_RR
      [] c = "enqueue_payload" -> PLD_ER
      [] c = "dequeue_payload" -> PLD_DR
      [] c = "clear_free_payloads" -> PLD_FR

\* What a command hands back to its caller.
Returned(status, value) == [raised |-> "none", status |-> status, value |-> value]

Raised(e) == [raised |-> e, status |-> ANS_STATUS_NONE, value |-> PyNone]

NoAnswer == Answer(ANS_STATUS_NONE, PyNone, PyNone)

\* x & (1 << k)
BitAnd(x, k) == ((x \div (2 ^ k)) % 2) * (2 ^ k)

\* value.decode() of the read-string commands: None has no decode().
DecodeValue(ret_val, v) ==
    IF v.t = "NoneType" THEN Raised("AttributeError") ELSE Returned(ret_val, PyStr(v.s))

configuration_read(sent, a) ==
    IF sent # ANS_STATUS_DATA_SENT THEN Returned(sent, PyNone)
    ELSE IF a.raised # "none" THEN Raised(a.raised)
    ELSE IF a.ret_val = ANS_STATUS_DATA_RECEIVED /\ PyEq(a.opcode, PyInt(CFG_RA))
    THEN LET data == a.data.s
         IN  IF Len(data) < 8 THEN Raised("IndexError")
             ELSE Returned(ANS_STATUS_SUCCESS,
                           PyObj(<<data[1], data[2], data[3], data[4], data[5],
                                   BitAnd(data[6], 0), BitAnd(data[6], 1),
                                   BitAnd(data[6], 2), BitAnd(data[6], 3),
                                   BitAnd(data[8], 0), BitAnd(data[8], 1)>>))
    ELSE Returned(a.ret_val, PyNone)

configuration_save(sent, a) ==
    IF sent # ANS_STATUS_DATA_SENT THEN Returned(sent, PyNone)
    ELSE IF a.raised # "none" THEN Raised(a.raised)
    ELSE IF a.ret_val = ANS_STATUS_DATA_RECEIVED /\ PyEq(a.opcode, PyInt(CFG_SA))
    THEN Returned(ANS_STATUS_SUCCESS, PyNone)
    ELSE Returned(a.ret_val, PyNone)

\* The comparison is on reg, the request opcode, not on the answer's opcode.
factory_reset(sent, a) ==
    IF sent # ANS_STATUS_DATA_SENT THEN Returned(sent, PyNone)
    ELSE IF a.raised # "none" THEN Raised(a.raised)
    ELSE IF a.ret_val = ANS_STATUS_DATA_RECEIVED /\ PyEq(PyInt(CFG_FR), PyInt(CFG_FA))
    THEN Returned(ANS_STATUS_SUCCESS, PyNone)
    ELSE Returned(a.ret_val, PyNone)

guid_read(sent, a) ==
    IF sent # ANS_STATUS_DATA_SENT THEN DecodeValue(sent, PyNone)
    ELSE IF a.raised # "none" THEN Raised(a.raised)
    ELSE IF a.ret_val = ANS_STATUS_DATA_RECEIVED /\ PyEq(a.opcode, PyInt(MGI_RA))
    THEN DecodeValue(ANS_STATUS_SUCCESS, a.data)
    ELSE DecodeValue(a.ret_val, PyNone)

serial_number_read(sent, a) ==
    IF sent # ANS_STATUS_DATA_SENT THEN DecodeValue(sent, PyNone)
    ELSE IF a.raised # "none" THEN Raised(a.raised)
    ELSE IF a.ret_val = ANS_STATUS_DATA_RECEIVED /\ PyEq(a.opcode, PyInt(MSN_RA))
    THEN DecodeValue(ANS_STATUS_SUCCESS, a.data)
    ELSE DecodeValue(a.ret_val, PyNone)

product_number_read(sent, a) ==
    IF sent # ANS_STATUS_DATA_SENT THEN DecodeValue(sent, PyNone)
    ELSE IF a.raised # "none" THEN Raised(a.raised)
    ELSE IF a.ret_val = ANS_STATUS_DATA_RECEIVED /\ PyEq(a.opcode, PyInt(MPN_RA))
    THEN DecodeValue(ANS_STATUS_SUCCESS, a.data)
    ELSE DecodeValue(a.ret_val, PyNone)

\* Variant of rtc_read: the four time bytes are taken most significant first.
rtc_read_BigEndian(sent, a) ==
    IF sent # ANS_STATUS_DATA_SENT THEN Returned(sent, PyNone)
    ELSE IF a.raised # "none" THEN Raised(a.raised)
    ELSE IF a.ret_val = ANS_STATUS_DATA_RECEIVED /\ PyEq(a.opcode, PyInt(RTC_RA))
    THEN LET data == a.data.s
         IN  IF Len(data) < 4 THEN Raised("IndexError")
             ELSE Returned(ANS_STATUS_SUCCESS,
                           PyInt(data[1] * 16777216 + data[2] * 65536 + data[3] * 256
                                 + data[4] + ASTROCAST_REF_UNIX_TIME))
    ELSE Returned(a.ret_val, PyNone)

rtc_read(sent, a) ==
    IF sent # ANS_STATUS_DATA_SENT THEN Returned(sent, PyNone)
    ELSE IF a.raised # "none" THEN Raised(a.raised)
    ELSE IF a.ret_val = ANS_STATUS_DATA_RECEIVED /\ PyEq(a.opcode, PyInt(RTC_RA))
    THEN LET data == a.data.s
         IN  IF Len(data) < 4 THEN Raised("IndexError")
             ELSE Returned(ANS_STATUS_SUCCESS,
                           PyInt(data[4] * 16777216 + data[3] * 65536 + data[2] * 256
                                 + data[1] + ASTROCAST_REF_UNIX_TIME))
    ELSE Returned(a.ret_val, PyNone)

\* Variant of IdCheck: the comparison is dropped.
IdCheck_Dropped(id, id_check) == TRUE

\* if id == id_check, with id the str of generate_message and id_check an int.
IdCheck(id, id_check) == PyEq(id, id_check)

\* enqueue_payload once the length test has passed and the message is built.
enqueue_payload(id, sent, a) ==
    IF sent # ANS_STATUS_DATA_SENT THEN Returned(sent, id)
    ELSE IF a.raised # "none" THEN Raised(a.raised)
    ELSE IF a.ret_val = ANS_STATUS_DATA_RECEIVED /\ PyEq(a.opcode, PyInt(PLD_EA))
    THEN LET data == a.data.s
         IN  IF Len(data) < 2 THEN Raised("IndexError")
             ELSE IF IdCheck(id, PyInt(data[2] * 256 + data[1]))
                  THEN Returned(ANS_STATUS_SUCCESS, id)
                  ELSE Returned(ANS_STATUS_PAYLOAD_ID_CHECK_FAILED, id)
    ELSE Returned(a.ret_val, id)

\* Variant of PayloadFits: < instead of <=.
PayloadFits_Strict(data) == Len(data) < ASN_MAX_MSG_SIZE

\* The length test of enqueue_payload.
PayloadFits(data) == Len(data) <= ASN_MAX_MSG_SIZE

dequeue_payload(sent, a) ==
    IF sent # ANS_STATUS_DATA_SENT THEN Returned(sent, PyNone)
    ELSE IF a.raised # "none" THEN Raised(a.raised)
    ELSE IF a.ret_val = ANS_STATUS_DATA_RECEIVED /\ PyEq(a.opcode, PyInt(PLD_DA))
    THEN LET data == a.data.s
         IN  IF Len(data) < 2 THEN Raised("IndexError")
             ELSE Returned(ANS_STATUS_SUCCESS, PyInt(data[2] * 256 + data[1]))
    ELSE Returned(a.ret_val, PyNone)

\* Variant of clear_free_payloads: the answer opcode is not compared.
clear_free_payloads_AnyOpcode(sent, a) ==
    IF sent # ANS_STATUS_DATA_SENT THEN Returned(sent, PyNone)
    ELSE IF a.raised # "none" THEN Raised(a.raised)
    ELSE IF a.ret_val = ANS_STATUS_DATA_RECEIVED
    THEN Returned(ANS_STATUS_SUCCESS, PyNone)
    ELSE Returned(a.ret_val, PyNone)

clear_free_payloads(sent, a) ==
    IF sent # ANS_STATUS_DATA_SENT THEN Returned(sent, PyNone)
    ELSE IF a.raised # "none" THEN Raised(a.raised)
    ELSE IF a.ret_val = ANS_STATUS_DATA_RECEIVED /\ PyEq(a.opcode, PyInt(PLD_FA))
    THEN Returned(ANS_STATUS_SUCCESS, PyNone)
    ELSE Returned(a.ret_val, PyNone)

\* The command's code from the return of encode_send_request onwards.
CommandResult(c, id, sent, a) ==
    CASE c = "configuration_read" -> configuration_read(sent, a)
      [] c = "configuration_save" -> configuration_save(sent, a)
      [] c = "factory_reset" -> factory_reset(sent, a)
      [] c = "guid_read" -> guid_read(sent, a)
      [] c = "serial_number_read" -> serial_number_read(sent, a)
      [] c = "product_number_read" -> product_number_read(sent, a)
      [] c = "rtc_read" -> rtc_read(sent, a)
      [] c = "enqueue_payload" -> enqueue_payload(id, sent, a)
      [] c = "dequeue_payload" -> dequeue_payload(sent, a)
      [] c = "clear_free_payloads" -> clear_free_payloads(sent, a)
      [] OTHER -> IF a.raised # "none" THEN Raised(a.raised)
                  ELSE Returned(a.ret_val, PyNone)

\* ------------------------------------------------------------------ terminal
\* The answer opcode of the opcode table for each request.
AnswerOpcode(c) ==
    CASE c = "configuration_read" -> CFG_RA
      [] c = "configuration_save" -> CFG_SA
      [] c = "factory_reset" -> CFG_FA
      [] c = "guid_read" -> MGI_RA
      [] c = "serial_number_read" -> MSN_RA
      [] c = "product_number_read" -> MPN_RA
      [] c = "rtc_read" -> RTC_RA
      [] c = "enqueue_payload" -> PLD_EA
      [] c = "dequeue_payload" -> PLD_DA
      [] c = "clear_free_payloads" -> PLD_FA

\* A frame as the terminal puts it on the line: STX, uppercase hex body, the
\* swapped CRC (or a CRC with its first character altered), then the tail.
TerminalFrame(body, crc_ok, tail) ==
    LET hexbody == upper(hexlify(body))
        crc == _generate_crc(hexbody)
        bad == <<IF crc[1] = 48 THEN 49 ELSE 48>> \o Tail(crc)
    IN  <<STX>> \o hexbody \o (IF crc_ok THEN crc ELSE bad) \o tail

\* Answer payloads the terminal may attach for a command; idbytes are the two
\* ID bytes of the enqueue request.
Payloads(c, idbytes) ==
    CASE c = "configuration_read" -> {<<3, 1, 1, 2, 0, 5, 0, 2>>, <<3, 1>>}
      [] c \in {"guid_read", "serial_number_read", "product_number_read"} -> {<<65, 66>>}
      [] c = "rtc_read" -> {<<0, 0, 0, 0>>, <<1, 2, 3, 4>>, <<>>}
      [] c = "enqueue_payload" ->
            {idbytes, <<(idbytes[1] + 1) % 256, idbytes[2]>>, <<>>}
      [] c = "dequeue_payload" -> {<<52, 18>>, <<>>}
      [] OTHER -> {<<>>}

\* Arguments of an error answer: BUFFER_FULL (0x2501), the values 0x7000 and
\* 0x7005 and a truncated error answer.
ErrorArgs ==
    {<<ANS_STATUS_BUFFER_FULL % 256, ANS_STATUS_BUFFER_FULL \div 256>>,
     <<0, 112>>, <<5, 112>>, <<>>}

\* A valid answer opcode that is not the one the command expects.
OtherOpcode(c) == IF AnswerOpcode(c) = CFG_SA THEN PLD_FA ELSE CFG_SA

\* Bodies of the answers the terminal may send for a command.
Bodies(c, idbytes) ==
    {<<AnswerOpcode(c)>> \o p : p \in Payloads(c, idbytes)}
        \cup {<<OtherOpcode(c), 52, 18>>}
        \cup {<<ERR_RA>> \o e : e \in ErrorArgs}

\* The well-formed payload of the expected answer.
MainPayload(c, idbytes) ==
    CASE c = "configuration_read" -> <<3, 1, 1, 2, 0, 5, 0, 2>>
      [] c \in {"guid_read", "serial_number_read", "product_number_read"} -> <<65, 66>>
      [] c = "rtc_read" -> <<1, 2, 3, 4>>
      [] c = "enqueue_payload" -> idbytes
      [] c = "dequeue_payload" -> <<52, 18>>
      [] OTHER -> <<>>

\* The expected answer with its well-formed payload, and the BUFFER_FULL error.
MainBodies(c, idbytes) ==
    {<<AnswerOpcode(c)>> \o MainPayload(c, idbytes),
     <<ERR_RA, ANS_STATUS_BUFFER_FULL % 256, ANS_STATUS_BUFFER_FULL \div 256>>}

\* What the terminal sends after a request, as a sequence of bursts: nothing;
\* a complete frame in one burst; and, for the main bodies, a frame whose last
\* byte comes in a later burst, a frame with a corrupted CRC, a frame without
\* ETX and a frame whose ETX is replaced by another byte.
Replies(c, idbytes) ==
    {<<>>}
        \cup {<<TerminalFrame(b, TRUE, <<ETX>>)>> : b \in Bodies(c, idbytes)}
        \cup {<<TerminalFrame(b, TRUE, <<>>), <<ETX>>>> : b \in MainBodies(c, idbytes)}
        \cup {<<TerminalFrame(b, FALSE, <<ETX>>)>> : b \in MainBodies(c, idbytes)}
        \cup {<<TerminalFrame(b, TRUE, <<>>)>> : b \in MainBodies(c, idbytes)}
        \cup {<<TerminalFrame(b, TRUE, <<48>>)>> : b \in MainBodies(c, idbytes)}

\* The answers tried with the payloads at the length limit: silence and the
\* expected answer echoing the ID.
FewReplies(c, idbytes) == {<<>>, <<TerminalFrame(<<AnswerOpcode(c)>> \o idbytes, TRUE, <<ETX>>)>>}

\* Bytes left unread in the UART buffer by earlier traffic.
StaleRx == {<<>>, <<90>>, <<ETX>>, <<STX, 57>>}

\* Clock values at the start of a command.
StartTicks == {0, TicksPeriod - 1}

\* Payload arguments of enqueue_payload: lengths 0, 2, 160 and 161.
Filled(n) == [i \in 1..n |-> 65]

EnqueuePayloads ==
    {Filled(0), Filled(2), Filled(ASN_MAX_MSG_SIZE), Filled(ASN_MAX_MSG_SIZE + 1)}

\* id arguments of enqueue_payload: None, 4 hex characters, an int.
EnqueueIds == {PyNone, PyStr(<<49, 50, 51, 52>>), PyStr(<<97, 98, 99, 100>>), PyInt(4660)}

\* Draws of random.randint(0, 65535).
RandomDraws == {5, 4660}

\* ------------------------------------------------------------------ state
VARIABLES
    pc,                 \* "idle", "capture" (inside the loop), "done" (returned)
    cmd,                \* the command operation called
    request,            \* opcode and data given to encode_send_request
    payload,            \* data argument of enqueue_payload
    id,                 \* local id of enqueue_payload
    sent,               \* ret_val of encode_send_request
    wire,               \* bytes the transport accepted, one entry per write
    rxq,                \* UART receive buffer
    line,               \* bursts the terminal has sent that have not arrived
    ticks,              \* utime.ticks_ms()
    timeout_timestamp,
    do_capture,
    message_buffer,
    elapsed,            \* sleeps since the capture started (observer)
    exit_by,            \* how the loop was left: "etx", "deadline" or "none"
    dropped,            \* bytes read in this capture and not captured (observer)
    arrived,            \* bytes that reached the UART while this capture could
                        \* still read them (observer)
    backlog,            \* bytes sent before this request and still unread when
                        \* it was written (observer)
    rda,                \* what receive_decode_answer returned
    ret                 \* what the command returned

vars ==
    <<pc, cmd, request, payload, id, sent, wire, rxq, line, ticks, timeout_timestamp,
      do_capture, message_buffer, elapsed, exit_by, dropped, arrived, backlog, rda,
      ret>>

Init ==
    /\ pc = "idle"
    /\ cmd = "none"
    /\ request = [opcode |-> 0, data |-> <<>>]
    /\ payload = <<>>
    /\ id = PyNone
    /\ sent = ANS_STATUS_NONE
    /\ wire = <<>>
    /\ rxq \in StaleRx
    /\ line = <<>>
    /\ ticks \in StartTicks
    /\ timeout_timestamp = 0
    /\ do_capture = FALSE
    /\ message_buffer = <<>>
    /\ elapsed = 0
    /\ exit_by = "none"
    /\ dropped = <<>>
    /\ arrived = <<>>
    /\ backlog = Len(rxq)
    /\ rda = NoAnswer
    /\ ret = Returned(ANS_STATUS_NONE, PyNone)

\* The bytes of a sequence of bursts, in order.
RECURSIVE Flat(_)
Flat(bursts) == IF bursts = <<>> THEN <<>> ELSE Head(bursts) \o Flat(Tail(bursts))

\* The command returns without a capture.
ReturnNow(r) ==
    /\ pc' = "done"
    /\ ret' = r
    /\ UNCHANGED <<rxq, line, ticks, timeout_timestamp, do_capture, message_buffer,
                   elapsed, exit_by, dropped, arrived, backlog, rda>>

\* receive_decode_answer is entered: start of the capture loop.
EnterCapture(reply) ==
    /\ pc' = "capture"
    /\ timeout_timestamp' = ticks + CaptureTimeout
    /\ do_capture' = FALSE
    /\ message_buffer' = <<>>
    /\ elapsed' = 0
    /\ dropped' = <<>>
    /\ arrived' = <<>>
    /\ backlog' = Len(rxq) + Len(Flat(line))
    /\ line' = line \o reply
    /\ UNCHANGED <<rxq, ticks, exit_by, rda, ret>>

\* encode_send_request(opcode, data) with the transport accepting all of the
\* frame, its first byte only, or nothing (write returns None); then the
\* command goes on to the capture or returns.
SendRequest(c, opcode, message_id, data, w, reply) ==
    IF EncodeRaises(opcode, data)
    THEN /\ request' = [opcode |-> opcode, data |-> data]
         /\ wire' = <<>>
         /\ sent' = ANS_STATUS_NONE
         /\ ReturnNow(Raised("ValueError"))
    ELSE LET frame == EncodedFrame(opcode, data)
             message_len == CASE w = "all" -> PyInt(Len(frame))
                              [] w = "short" -> PyInt(1)
                              [] w = "none" -> PyNone
             status == SendStatus(message_len)
         IN  /\ request' = [opcode |-> opcode, data |-> data]
             /\ wire' = IF message_len.t = "NoneType" THEN <<>>
                        ELSE <<SubSeq(frame, 1, message_len.n)>>
             /\ sent' = status
             /\ IF status = ANS_STATUS_DATA_SENT
                THEN EnterCapture(reply)
                ELSE ReturnNow(CommandResult(c, message_id, status, NoAnswer))

\* A command without arguments is called.
Call(c, w, reply) ==
    /\ pc = "idle"
    /\ cmd' = c
    /\ UNCHANGED <<payload, id>>
    /\ SendRequest(c, reg(c), PyNone, <<>>, w, reply)

\* enqueue_payload(data, id) is called; r is the random draw used when id is None.
CallEnqueue(data, id_arg, r, w, reply_of) ==
    /\ pc = "idle"
    /\ cmd' = "enqueue_payload"
    /\ payload' = data
    /\ IF ~PayloadFits(data)
       THEN /\ id' = id_arg
            /\ UNCHANGED <<request, sent, wire>>
            /\ ReturnNow(Returned(ANS_STATUS_PAYLOAD_TOO_LONG, id_arg))
       ELSE LET gm == generate_message(data, id_arg, r)
            IN  /\ id' = gm.id
                /\ IF gm.raised # "none"
                   THEN /\ UNCHANGED <<request, sent, wire>>
                        /\ ReturnNow(Raised(gm.raised))
                   ELSE \E reply \in reply_of[gm.id.s] :
                            SendRequest("enqueue_payload", PLD_ER, gm.id, gm.m, w, reply)

\* The loop is left: the buffer is decoded and the command finishes.
LeaveLoop(buffer, why) ==
    LET a == DecodeBuffer(buffer)
    IN  /\ pc' = "done"
        /\ exit_by' = why
        /\ rda' = a
        /\ ret' = CommandResult(cmd, id, sent, a)

\* Loop iteration: the clock has reached timeout_timestamp.
CaptureDeadline ==
    /\ pc = "capture"
    /\ ticks >= timeout_timestamp
    /\ LeaveLoop(message_buffer, "deadline")
    /\ UNCHANGED <<cmd, request, payload, id, sent, wire, rxq, line, ticks,
                   timeout_timestamp, do_capture, message_buffer, elapsed, dropped,
                   arrived, backlog>>

\* Variant of CaptureRead: every byte read is captured, STX seen or not.
CaptureRead_CaptureAll ==
    /\ pc = "capture"
    /\ ~(ticks >= timeout_timestamp)
    /\ rxq # <<>>
    /\ LET b == Head(rxq)
           capturing == TRUE
           buffer == IF capturing THEN Append(message_buffer, b) ELSE message_buffer
       IN  /\ rxq' = Tail(rxq)
           /\ do_capture' = capturing
           /\ message_buffer' = buffer
           /\ dropped' = IF capturing THEN dropped ELSE Append(dropped, b)
           /\ IF b = ETX
              THEN LeaveLoop(buffer, "etx")
              ELSE UNCHANGED <<pc, exit_by, rda, ret>>
    /\ UNCHANGED <<cmd, request, payload, id, sent, wire, line, ticks,
                   timeout_timestamp, elapsed, arrived, backlog>>

\* Loop iteration: a byte is available and is read.
CaptureRead ==
    /\ pc = "capture"
    /\ ~(ticks >= timeout_timestamp)
    /\ rxq # <<>>
    /\ LET b == Head(rxq)
           capturing == do_capture \/ b = STX
           buffer == IF capturing THEN Append(message_buffer, b) ELSE message_buffer
       IN  /\ rxq' = Tail(rxq)
           /\ do_capture' = capturing
           /\ message_buffer' = buffer
           /\ dropped' = IF capturing THEN dropped ELSE Append(dropped, b)
           /\ IF b = ETX
              THEN LeaveLoop(buffer, "etx")
              ELSE UNCHANGED <<pc, exit_by, rda, ret>>
    /\ UNCHANGED <<cmd, request, payload, id, sent, wire, line, ticks,
                   timeout_timestamp, elapsed, arrived, backlog>>

\* Loop iteration: nothing to read, sleep_ms(1).  ticks_ms() wraps.
CaptureSleep ==
    /\ pc = "capture"
    /\ ~(ticks >= timeout_timestamp)
    /\ rxq = <<>>
    /\ ticks' = (ticks + 1) % TicksPeriod
    /\ elapsed' = IF elapsed < ElapsedCap THEN elapsed + 1 ELSE elapsed
    /\ UNCHANGED <<pc, cmd, request, payload, id, sent, wire, rxq, line,
                   timeout_timestamp, do_capture, message_buffer, exit_by, dropped,
                   arrived, backlog, rda, ret>>

\* The next burst of the terminal arrives in the UART buffer.
Deliver ==
    /\ line # <<>>
    /\ rxq' = rxq \o Head(line)
    /\ line' = Tail(line)
    /\ arrived' = IF pc = "capture" /\ ~(ticks >= timeout_timestamp)
                  THEN arrived \o Head(line)
                  ELSE arrived
    /\ UNCHANGED <<pc, cmd, request, payload, id, sent, wire, ticks,
                   timeout_timestamp, do_capture, message_buffer, elapsed, exit_by,
                   dropped, backlog, rda, ret>>

WriteOutcomes == {"all", "short", "none"}

\* The terminal answers a request it received whole; otherwise it stays silent.
RepliesAfter(c, idbytes, w, rich) ==
    IF w # "all" THEN {<<>>}
    ELSE IF rich THEN Replies(c, idbytes) ELSE FewReplies(c, idbytes)

CallAny ==
    /\ pc = "idle"
    /\ \E c \in Commands \ {"enqueue_payload"}, w \in WriteOutcomes :
            \E reply \in RepliesAfter(c, <<0, 0>>, w, TRUE) : Call(c, w, reply)

\* The two ID bytes of a request whose id is the str s.
IdBytes(s) == IF CanUnhexlify(s) /\ Len(s) = 4 THEN unhexlify(s) ELSE <<0, 0>>

CallEnqueueAny ==
    /\ pc = "idle"
    /\ \E data \in EnqueuePayloads, id_arg \in EnqueueIds, w \in WriteOutcomes :
        \E r \in (IF id_arg.t = "NoneType" THEN RandomDraws ELSE {0}) :
            CallEnqueue(data, id_arg, r, w,
                        [s \in {FormatRandomId(r), id_arg.s} |->
                            RepliesAfter("enqueue_payload", IdBytes(s), w,
                                         Len(data) = 2)])

Next ==
    \/ CallAny
    \/ CallEnqueueAny
    \/ CaptureDeadline
    \/ CaptureRead
    \/ CaptureSleep
    \/ Deliver

Spec == Init /\ [][Next]_vars

\* ------------------------------------------------------------------ loopback
\* encode_send_request(opcode, data) on a channel that returns the written
\* bytes to the receiver, followed by receive_decode_answer.
LoopbackArgs == {<<>>, <<52, 49>>, <<48, 49, 50, 53>>, <<97, 98, 99, 100>>, <<48>>}

Loopback(opcode, data) ==
    /\ pc = "idle"
    /\ cmd' = "receive_decode_answer"
    /\ UNCHANGED <<payload, id>>
    /\ IF EncodeRaises(opcode, data)
       THEN SendRequest("receive_decode_answer", opcode, PyNone, data, "all", <<>>)
       ELSE SendRequest("receive_decode_answer", opcode, PyNone, data, "all",
                        <<EncodedFrame(opcode, data)>>)

LoopbackAny ==
    /\ pc = "idle"
    /\ \E opcode \in 0..255, data \in LoopbackArgs : Loopback(opcode, data)

InitLoop == Init /\ rxq = <<>>

NextLoop ==
    \/ LoopbackAny
    \/ CaptureDeadline
    \/ CaptureRead
    \/ CaptureSleep
    \/ Deliver

SpecLoop == InitLoop /\ [][NextLoop]_vars

\* ------------------------------------------------------------------ tampering
\* x with bit k inverted.
FlipBit(x, k) == XOR(x, 2^k)

\* The frame with bit k of the j-th of its four CRC characters inverted.
Tampered(frame, j, k) == [frame EXCEPT ![Len(frame) - 5 + j] = FlipBit(@, k)]

\* The opcodes of the protocol: requests, answers and the error answer.
ProtocolOpcodes == {reg(c) : c \in Commands} \cup {AnswerOpcode(c) : c \in Commands}
                       \cup {ERR_RA}

TamperArgs == {<<>>, <<48, 49, 50, 53>>}

\* A frame built by encode_send_request comes back with one bit of its CRC
\* field inverted and receive_decode_answer runs on it.
ReceiveTampered(opcode, data, j, k) ==
    /\ pc = "idle"
    /\ cmd' = "receive_tampered"
    /\ UNCHANGED <<payload, id>>
    /\ SendRequest("receive_tampered", opcode, PyNone, data, "all",
                   <<Tampered(EncodedFrame(opcode, data), j, k)>>)

ReceiveTamperedAny ==
    /\ pc = "idle"
    /\ \E opcode \in ProtocolOpcodes, data \in TamperArgs, j \in 1..4, k \in 0..7 :
            ReceiveTampered(opcode, data, j, k)

NextTamper ==
    \/ ReceiveTamperedAny
    \/ CaptureDeadline
    \/ CaptureRead
    \/ CaptureSleep
    \/ Deliver

SpecTamper == InitLoop /\ [][NextTamper]_vars

\* ------------------------------------------------------------------ checksum runs
\* "123456789"
Digits == <<49, 50, 51, 52, 53, 54, 55, 56, 57>>

SampleBytes == {0, 1, 49, 128, 255}

\* Byte sequences given to _crc16: the empty one, every single byte (each
\* table entry is used once), pairs and triples of sample bytes, and Digits.
CrcInputs ==
    {<<>>, Digits}
        \cup {<<x>> : x \in 0..255}
        \cup {<<x, y>> : x \in SampleBytes, y \in SampleBytes}
        \cup {<<x, y, z>> : x \in SampleBytes, y \in SampleBytes, z \in SampleBytes}

\* _crc16(data) is called on its own.
CallCrc16(data) ==
    /\ pc = "idle"
    /\ cmd' = "_crc16"
    /\ payload' = data
    /\ UNCHANGED <<request, id, sent, wire>>
    /\ ReturnNow(Returned(_crc16(data), PyNone))

CallCrc16Any ==
    /\ pc = "idle"
    /\ \E data \in CrcInputs : CallCrc16(data)

NextCrc == CallCrc16Any

SpecCrc == InitLoop /\ [][NextCrc]_vars

\* ------------------------------------------------------------------ session
\* Several commands in a row on one driver.  The UART and the line keep what
\* earlier commands left unread; the caller does not start a new command
\* while more than MaxBacklog bytes are still pending.
MaxBacklog == 16

SessionCommands == {"configuration_save", "rtc_read"}

\* The terminal stays silent or sends the expected answer in one burst.
SessionReplies(c) ==
    {<<>>,
     <<TerminalFrame(<<AnswerOpcode(c)>> \o MainPayload(c, <<0, 0>>), TRUE, <<ETX>>)>>}

CallInSession ==
    /\ pc = "idle"
    /\ \E c \in SessionCommands :
            \E reply \in SessionReplies(c) : Call(c, "all", reply)

\* The command has returned and the caller goes on to the next one.
NextCommand ==
    /\ pc = "done"
    /\ Len(rxq) + Len(Flat(line)) <= MaxBacklog
    /\ pc' = "idle"
    /\ UNCHANGED <<cmd, request, payload, id, sent, wire, rxq, line, ticks,
                   timeout_timestamp, do_capture, message_buffer, elapsed, exit_by,
                   dropped, arrived, backlog, rda, ret>>

NextSession ==
    \/ CallInSession
    \/ NextCommand
    \/ CaptureDeadline
    \/ CaptureRead
    \/ CaptureSleep
    \/ Deliver

SpecSession == InitLoop /\ [][NextSession]_vars

\* ------------------------------------------------------------------ short frames
\* Longest run of characters between STX and the end of a short frame.
MaxShort == 6

\* 'F' and '0'
ShortChars == {70, 48}

RECURSIVE Runs(_)
Runs(k) ==
    IF k = 0 THEN {<<>>}
    ELSE {<<>>} \cup {<<x>> \o r : x \in ShortChars, r \in Runs(k - 1)}

\* What the channel holds: STX, up to MaxShort characters, and an ETX or not.
ShortFrames == {<<STX>> \o r \o tail : r \in Runs(MaxShort), tail \in {<<ETX>>, <<>>}}

\* receive_decode_answer runs after a request on a channel that delivers a
\* short frame.
ReceiveShort(frame) ==
    /\ pc = "idle"
    /\ cmd' = "receive_short"
    /\ UNCHANGED <<payload, id>>
    /\ SendRequest("receive_short", CFG_SR, PyNone, <<>>, "all", <<frame>>)

ReceiveShortAny ==
    /\ pc = "idle"
    /\ \E frame \in ShortFrames : ReceiveShort(frame)

NextShort ==
    \/ ReceiveShortAny
    \/ CaptureDeadline
    \/ CaptureRead
    \/ CaptureSleep
    \/ Deliver

SpecShort == InitLoop /\ [][NextShort]_vars

\* ------------------------------------------------------------------ properties
\* The command has returned (or raised).
Done == pc = "done" /\ cmd \in Commands

\* The buffer holds a delimited frame: STX first, ETX last, room for a CRC.
CompleteFrame(buffer) ==
    /\ Len(buffer) >= 6
    /\ buffer[1] = STX
    /\ buffer[Len(buffer)] = ETX

BodyHex(buffer) == SubSeq(buffer, 2, Len(buffer) - 5)

ClaimedCrc(buffer) == SubSeq(buffer, Len(buffer) - 4, Len(buffer) - 1)

\* The frame's CRC characters are those of its body.
CrcValid(buffer) ==
    /\ CompleteFrame(buffer)
    /\ Len(BodyHex(buffer)) >= 2
    /\ CanUnhexlify(BodyHex(buffer))
    /\ _generate_crc(BodyHex(buffer)) = ClaimedCrc(buffer)

Body(buffer) == unhexlify(BodyHex(buffer))

\* The whole request frame was accepted by the transport.
RequestWritten == wire = <<EncodedFrame(request.opcode, request.data)>>

\* A valid-CRC frame was captured up to its ETX and its opcode is op.
CapturedOpcode(op) ==
    /\ exit_by = "etx"
    /\ CrcValid(message_buffer)
    /\ Body(message_buffer)[1] = op

\* A valid-CRC frame with a non-error opcode other than the expected one.
CapturedMismatch ==
    /\ exit_by = "etx"
    /\ CrcValid(message_buffer)
    /\ Body(message_buffer)[1] # ERR_RA
    /\ Body(message_buffer)[1] # AnswerOpcode(cmd)

StringReads == {"guid_read", "serial_number_read", "product_number_read"}

\* Status codes of the success / informational class.
Informational ==
    {ANS_STATUS_NONE, ANS_STATUS_SUCCESS, ANS_STATUS_DATA_SENT, ANS_STATUS_DATA_RECEIVED}

\* C1: a command returns SUCCESS only if in that call the request was written,
\* a frame was captured up to its ETX, its CRC is valid, it is not an error
\* answer and its opcode is the command's answer opcode.
C1_SuccessOnlyOnValidAnswer ==
    (Done /\ ret.raised = "none" /\ ret.status = ANS_STATUS_SUCCESS)
        => /\ sent = ANS_STATUS_DATA_SENT
           /\ wire # <<>>
           /\ CapturedOpcode(AnswerOpcode(cmd))
           /\ AnswerOpcode(cmd) # ERR_RA

C3_ExpectedAnswerGivesSuccess ==
    (Done /\ RequestWritten /\ CapturedOpcode(AnswerOpcode(cmd)))
        => (ret.raised = "none" /\ ret.status = ANS_STATUS_SUCCESS)

\* C4: every command returns a status on every outcome; none raises.
C4_NeverRaises == Done => ret.raised = "none"

\* C5: when the loop is left at the deadline and no ETX is waiting unread,
\* receive_decode_answer returns (TIMEOUT, None, None).
C5_NoEtxGivesTimeout ==
    (Done /\ exit_by = "deadline" /\ \A i \in 1..Len(rxq) : rxq[i] # ETX)
        => rda = Answer(ANS_STATUS_TIMEOUT, PyNone, PyNone)

\* C6: the capture loop is not running any more once more than the timeout has
\* elapsed since it started.
C6_LoopEndsAfterTimeout == pc = "capture" => elapsed <= CaptureTimeout

\* The two ID bytes of the enqueue request on the wire.
SentIdBytes == unhexlify(SubSeq(wire[1], 4, 7))

LE16(b) == b[2] * 256 + b[1]

\* An enqueue request was written whole and a valid-CRC PLD_EA answer carrying
\* two ID bytes was captured.
EnqueueAnswered ==
    /\ Done
    /\ cmd = "enqueue_payload"
    /\ sent = ANS_STATUS_DATA_SENT
    /\ RequestWritten
    /\ CapturedOpcode(PLD_EA)
    /\ Len(Body(message_buffer)) = 3

\* C7: an enqueue whose PLD_EA answer echoes another ID than the one sent
\* returns PAYLOAD_ID_CHECK_FAILED.
C7_WrongIdFails ==
    (EnqueueAnswered /\ LE16(Tail(Body(message_buffer))) # LE16(SentIdBytes))
        => ret = Returned(ANS_STATUS_PAYLOAD_ID_CHECK_FAILED, id)

C7_Witness ==
    /\ EnqueueAnswered
    /\ LE16(Tail(Body(message_buffer))) # LE16(SentIdBytes)
    /\ ret.status = ANS_STATUS_PAYLOAD_ID_CHECK_FAILED

\* C8: an enqueue whose PLD_EA answer echoes the ID that was sent returns
\* SUCCESS together with that ID.
C8_EchoedIdSucceeds ==
    (EnqueueAnswered /\ Tail(Body(message_buffer)) = SentIdBytes)
        => ret = Returned(ANS_STATUS_SUCCESS, id)

\* enqueue_payload refused the payload: PAYLOAD_TOO_LONG without any request.
Rejected ==
    /\ ret = Returned(ANS_STATUS_PAYLOAD_TOO_LONG, id)
    /\ sent = ANS_STATUS_NONE

\* C9: a payload longer than 160 bytes is refused with PAYLOAD_TOO_LONG, with
\* no write and no capture; a payload of 0..160 bytes is not refused.
C9_LengthLimit ==
    (Done /\ cmd = "enqueue_payload")
        => IF Len(payload) > 160
           THEN Rejected /\ wire = <<>> /\ exit_by = "none" /\ message_buffer = <<>>
           ELSE ~Rejected

C9_Witness ==
    /\ Done
    /\ cmd = "enqueue_payload"
    /\ Len(payload) = 161
    /\ Rejected

\* The written frame came back and was captured up to its ETX.
LoopedBack ==
    /\ pc = "done"
    /\ cmd = "receive_decode_answer"
    /\ exit_by = "etx"

RoundTrip ==
    rda = Answer(ANS_STATUS_DATA_RECEIVED, PyInt(request.opcode),
                 PyBytes(unhexlify(request.data)))

TamperedArrived ==
    /\ pc = "done"
    /\ cmd = "receive_tampered"
    /\ arrived # <<>>

CrcRejected == rda = Answer(ANS_STATUS_CRC_NOT_VALID, PyNone, PyNone)

\* The captured buffer is long enough to be decoded, its body is hexadecimal
\* text and its CRC characters are not those computed over the body.
CrcDiffers ==
    /\ pc = "done"
    /\ exit_by # "none"
    /\ LongEnough(message_buffer)
    /\ CanUnhexlify(BodyHex(message_buffer))
    /\ ClaimedCrc(message_buffer) # _generate_crc(BodyHex(message_buffer))

\* C11: an encoded frame that comes back with any single bit of any of its
\* four CRC characters inverted is answered with CRC_NOT_VALID, no opcode and
\* no payload; and so is every captured buffer whose CRC characters differ
\* from the swapped CRC computed over its body.
C11_TamperedCrcRejected ==
    /\ TamperedArrived => CrcRejected
    /\ CrcDiffers => CrcRejected

\* CRC-16/CCITT computed bit by bit: polynomial 0x1021, most significant bit
\* first, no reflection, no final XOR.
RECURSIVE ShiftOut(_, _)
ShiftOut(crc, n) ==
    IF n = 0 THEN crc
    ELSE LET shifted == IF crc >= 32768 THEN XOR((crc * 2) % 65536, 4129)
                        ELSE crc * 2
         IN  IF shifted >= 0 THEN ShiftOut(shifted, n - 1) ELSE shifted

RECURSIVE BitwiseCrc(_, _)
BitwiseCrc(crc, data) ==
    IF data = <<>> THEN crc
    ELSE LET next == ShiftOut(XOR(crc, Head(data) * 256), 8)
         IN  IF next >= 0 THEN BitwiseCrc(next, Tail(data)) ELSE next

Crc16Returned == pc = "done" /\ cmd = "_crc16"

\* C12: _crc16 returns the bitwise CRC-16/CCITT with initial value 0xFFFF of
\* its argument, a value in 0..0xFFFF; 0x29B1 for "123456789" and 0xFFFF for
\* the empty sequence.
C12_TableCrcIsBitwiseCrc ==
    Crc16Returned
        => /\ ret.status = BitwiseCrc(65535, payload)
           /\ ret.status \in 0..65535
           /\ payload = Digits => ret.status = 10673
           /\ payload = <<>> => ret.status = 65535

C12_Witness ==
    /\ Crc16Returned
    /\ payload = Digits
    /\ ret = Returned(10673, PyNone)

\* A valid-CRC error answer was captured: opcode ERR_RA and two code bytes.
CapturedError ==
    /\ CapturedOpcode(ERR_RA)
    /\ Len(Body(message_buffer)) >= 3

ErrorCode == Body(message_buffer)[2] + 256 * Body(message_buffer)[3]

\* C13: on a valid-CRC answer whose first body byte is ERR_RA (0xFF),
\* receive_decode_answer returns the little-endian code of the next two body
\* bytes with no opcode and no payload, and every command returns that code
\* as its status.
C13_ErrorCodeReturned ==
    (Done /\ CapturedError)
        => /\ rda = Answer(ErrorCode, PyNone, PyNone)
           /\ ret.raised = "none"
           /\ ret.status = ErrorCode

\* encode_send_request has returned in this call.
RequestReturned == pc # "idle" /\ sent # ANS_STATUS_NONE

\* C14: encode_send_request returns DATA_SENT only when the transport took
\* the whole frame, and HW_ERR when the write failed or took fewer bytes.
C14_ShortWriteIsHwErr ==
    RequestReturned
        => /\ sent \in {ANS_STATUS_DATA_SENT, ANS_STATUS_HW_ERR}
           /\ sent = ANS_STATUS_DATA_SENT <=> RequestWritten

\* The commands that return a (status, value) pair read from the terminal.
ReadOperations ==
    {"configuration_read", "rtc_read", "dequeue_payload"} \cup StringReads

\* C15: a read operation that returns hands back a value (not None) exactly
\* when its status is SUCCESS; with any other status the value is None.
C15_ValueIffSuccess ==
    (Done /\ cmd \in ReadOperations /\ ret.raised = "none")
        => (ret.value # PyNone <=> ret.status = ANS_STATUS_SUCCESS)

\* A valid-CRC RTC_RA answer with four payload bytes was captured by rtc_read.
RtcAnswered ==
    /\ Done
    /\ cmd = "rtc_read"
    /\ CapturedOpcode(RTC_RA)
    /\ Len(Body(message_buffer)) = 5

\* The payload d0..d3 read as a little-endian number.
LE32(d) == d[1] + 256 * d[2] + 65536 * d[3] + 16777216 * d[4]

\* C16: rtc_read on a valid-CRC RTC_RA answer with payload d0..d3 returns
\* SUCCESS and d0 + 256*d1 + 65536*d2 + 16777216*d3 + 1514764800; the payload
\* 0,0,0,0 gives 1514764800.
C16_RtcTime ==
    RtcAnswered
        => /\ ret = Returned(ANS_STATUS_SUCCESS,
                             PyInt(LE32(Tail(Body(message_buffer)))
                                   + ASTROCAST_REF_UNIX_TIME))
           /\ Tail(Body(message_buffer)) = <<0, 0, 0, 0>>
                => ret.value = PyInt(1514764800)

C16_Witness ==
    /\ RtcAnswered
    /\ Tail(Body(message_buffer)) = <<1, 2, 3, 4>>
    /\ ret = Returned(ANS_STATUS_SUCCESS, PyInt(1582070785))

\* A read step of the capture loop that leaves a byte out of the buffer.
DropsByte == pc = "capture" /\ dropped' # dropped

\* C17: the captured buffer, when not empty, starts with STX; the bytes read
\* and left out contain no STX; and a byte is only left out while the buffer
\* is empty, so no byte read before the first STX ever enters the buffer.
C17_Resynchronization ==
    /\ [](message_buffer # <<>> => message_buffer[1] = STX)
    /\ [](\A i \in 1..Len(dropped) : dropped[i] # STX)
    /\ [][DropsByte => message_buffer = <<>> /\ message_buffer' = <<>>]_vars

C17_Witness ==
    /\ Done
    /\ dropped # <<>>
    /\ CrcValid(message_buffer)

\* In this call one complete frame with a valid CRC, and nothing else, reached
\* the UART while the capture loop could still read it.
FrameArrivedInTime == Done /\ CrcValid(arrived)

\* C18: a complete uncorrupted reply frame that arrives within the deadline is
\* the frame receive_decode_answer captures and decodes, whatever stale bytes
\* were waiting before its STX (an ETX, an STX, part of an older frame).
C18_FrameCapturedDespiteStale ==
    FrameArrivedInTime
        => /\ message_buffer = arrived
           /\ rda = DecodeBuffer(arrived)

\* The captured buffer starts with a byte that was sent before this command's
\* request was written: fewer bytes were skipped than were pending then.
StaleCaptured == message_buffer # <<>> /\ Len(dropped) < backlog

\* C19: in a sequence of commands on one driver, a command that returns
\* SUCCESS has captured the frame sent in answer to its own request, never
\* bytes left over from, or arriving late for, an earlier command.
C19_OwnReplyOnly ==
    (Done /\ ret.raised = "none" /\ ret.status = ANS_STATUS_SUCCESS)
        => ~StaleCaptured

\* One write was attempted in this call: encode_send_request returned.
OneWrite == sent \in {ANS_STATUS_DATA_SENT, ANS_STATUS_HW_ERR} /\ Len(wire) <= 1

\* The capture loop ran in this call.
CapturePerformed == exit_by # "none"

\* Nothing was read from the UART in this call.
NothingRead == ~CapturePerformed /\ message_buffer = <<>> /\ dropped = <<>>

\* C20: every command makes exactly one transport write, then at most one
\* capture: the capture runs iff the write returned DATA_SENT; a failed write
\* makes the command return HW_ERR at once with no byte read; and once the
\* capture has started, and after the command has returned, there is no
\* further write and no second capture.
C20_OneWriteOneCapture ==
    /\ [](Done => /\ OneWrite
                  /\ CapturePerformed <=> sent = ANS_STATUS_DATA_SENT
                  /\ sent = ANS_STATUS_HW_ERR
                        => /\ ret.raised = "none"
                           /\ ret.status = ANS_STATUS_HW_ERR
                           /\ NothingRead)
    /\ [][pc = "capture" => UNCHANGED <<request, sent, wire>>]_vars
    /\ [][pc = "done" => UNCHANGED <<pc, request, sent, wire, message_buffer, dropped,
                                     exit_by, rda, ret>>]_vars

\* receive_decode_answer has returned after capturing from a short frame.
ShortDecoded == pc = "done" /\ cmd = "receive_short" /\ exit_by # "none"

TimedOut == rda = Answer(ANS_STATUS_TIMEOUT, PyNone, PyNone)

\* C21: the captured buffer is reported as TIMEOUT exactly when it is shorter
\* than 6 bytes; a buffer of 6 bytes or more goes on to the CRC verification
\* and decode and is not reported as TIMEOUT.
C21_TimeoutBelowSix ==
    ShortDecoded => (TimedOut <=> Len(message_buffer) < 6)

\* encode_send_request(opcode, data) has written its frame, for an opcode of
\* one byte and an argument string of hex digit pairs.
FrameWritten ==
    /\ pc # "idle"
    /\ cmd = "receive_decode_answer"
    /\ request.opcode \in 0..255
    /\ CanUnhexlify(request.data)

\* The two uppercase hex digits of a byte.
HexByte(b) == <<HexDigitUpper(b \div 16), HexDigitUpper(b % 16)>>

\* A hex digit in upper case.
Capital(c) == IF c \in 97..102 THEN c - 32 ELSE c

\* STX, the opcode and the arguments in uppercase hex, the CRC of the body
\* bytes with its low byte first, ETX.
ExpectedFrame ==
    LET crc == BitwiseCrc(65535, <<request.opcode>> \o unhexlify(request.data))
    IN  <<STX>> \o HexByte(request.opcode)
            \o [i \in 1..Len(request.data) |-> Capital(request.data[i])]
            \o HexByte(crc % 256) \o HexByte(crc \div 256) \o <<ETX>>

\* C22: for every opcode and hex-encoded argument string encode_send_request
\* writes STX, the uppercase hex digits of the opcode and of the arguments,
\* the four uppercase hex characters of the CRC of the body bytes in the order
\* [2,3,0,1] (low byte first) and ETX; STX and ETX stand only first and last.
C22_WrittenFrame ==
    FrameWritten
        => /\ sent = ANS_STATUS_DATA_SENT
           /\ wire = <<ExpectedFrame>>
           /\ \A i \in 2..(Len(wire[1]) - 1) : wire[1][i] \notin {STX, ETX}

C22_Witness ==
    /\ FrameWritten
    /\ request = [opcode |-> PLD_ER, data |-> <<97, 98, 99, 100>>]
    /\ wire = <<<<2, 50, 53, 65, 66, 67, 68, 67, 70, 54, 56, 3>>>>

====
